---- MODULE Spec2Model ----
(***************************************************************************)
(* A model of the repository mapper (src/unnamed/part_001): the per-file   *)
(* extractors (parseFile, processNode, parseDartFile, parseAndroidFile,    *)
(* parseAndroidManifest) and the aggregation loop that folds their records *)
(* into the project report.                                                *)
(*                                                                         *)
(* Conventions.                                                            *)
(*  - A JavaScript string is a tuple of one-character strings, so that     *)
(*    includes/endsWith/slice and the regular expressions are computed     *)
(*    character by character, as the code computes them.                   *)
(*  - A JavaScript object is a record holding exactly the properties that  *)
(*    are set to a defined value; a property that is missing or undefined  *)
(*    (JSON.stringify drops both) is a missing field of the record.        *)
(*  - An entry of FileInfo.imports that is a bare string s is the record   *)
(*    [source |-> s]; an ImportInfo object has the fields source and       *)
(*    specifiers.                                                          *)
(*  - A JavaScript Set is a tuple without duplicates in insertion order    *)
(*    (the order Array.from and Set iteration give).                       *)
(*  - A syntax tree node is [type, text, children]; children holds every   *)
(*    child, anonymous tokens included, as node.children and node.child(i) *)
(*    of the tree-sitter binding do. text is kept for the nodes whose text *)
(*    the code reads and is empty elsewhere.                               *)
(***************************************************************************)
EXTENDS Integers, Sequences, FiniteSets, TLC

VARIABLES pc, n, file, readOk, fileInfo, results, hasReactFiles,
          allCustomElements, output

vars == <<pc, n, file, readOk, fileInfo, results, hasReactFiles,
          allCustomElements, output>>

(***************************************************************************)
(* Strings                                                                 *)
(***************************************************************************)

Range(s) == {s[i] : i \in 1..Len(s)}

Min(S) == CHOOSE m \in S : \A x \in S : m <= x

Max(S) == CHOOSE m \in S : \A x \in S : x <= m

AlphaL == <<"a","b","c","d","e","f","g","h","i","j","k","l","m","n","o","p","q","r","s","t","u","v","w","x","y","z">>

AlphaU == <<"A","B","C","D","E","F","G","H","I","J","K","L","M","N","O","P","Q","R","S","T","U","V","W","X","Y","Z">>

Letter == Range(AlphaL) \cup Range(AlphaU)

\* \w of a JavaScript regular expression
WordChar == Letter \cup Range(<<"0","1","2","3","4","5","6","7","8","9","_">>)

\* \s of a JavaScript regular expression (the characters the model's texts use)
SpaceChar == Range(<<" ","\n","\t">>)

Quote == {"'", "\""}

\* the literal pat occurs in text at index i (1-based)
StartsAt(text, i, pat) ==
    /\ i >= 1
    /\ i + Len(pat) - 1 <= Len(text)
    /\ \A k \in 1..Len(pat) : text[i + k - 1] = pat[k]

\* String.prototype.includes
Includes(text, pat) ==
    \E i \in 1..(Len(text) - Len(pat) + 1) : StartsAt(text, i, pat)

\* String.prototype.endsWith
EndsWith(text, pat) == StartsAt(text, Len(text) - Len(pat) + 1, pat)

\* String.prototype.slice(1, -1)
Slice1(text) == SubSeq(text, 2, Len(text) - 1)

ToLowerChar(c) ==
    IF c \in Range(AlphaU)
      THEN AlphaL[CHOOSE i \in 1..26 : AlphaU[i] = c]
      ELSE c

\* String.prototype.toLowerCase
toLowerCase(text) == [i \in 1..Len(text) |-> ToLowerChar(text[i])]

LastIndexOf(text, c) ==
    LET idx == {i \in 1..Len(text) : text[i] = c}
    IN  IF idx = {} THEN 0 ELSE Max(idx)

\* path.extname: from the last "." of the last path segment, "" when that
\* segment has no "." or only a leading one
extname(path) ==
    LET base == SubSeq(path, LastIndexOf(path, "/") + 1, Len(path))
        dot  == LastIndexOf(base, ".")
    IN  IF dot <= 1 THEN << >> ELSE SubSeq(base, dot, Len(base))

\* Set.prototype.add on an insertion-ordered set
SetAdd(s, x) == IF x \in Range(s) THEN s ELSE Append(s, x)

\* SetAddAll without the test for elements already held
AppendAll(s, xs) == s \o xs

RECURSIVE SetAddAll(_, _)
SetAddAll(s, xs) ==
    IF xs = << >> THEN s ELSE SetAddAll(SetAdd(s, Head(xs)), Tail(xs))

\* the object with the one property key: val
Field(key, val) == key :> val

\* the object with the property key: opt[1] when opt is <<value>>, the object
\* without properties when opt is << >> (undefined)
OptField(key, opt) == IF opt = << >> THEN << >> ELSE key :> opt[1]

\* the object with the property key: val when val is a non-empty array or
\* string, the object without properties otherwise
NonEmptyField(key, val) == IF val = << >> THEN << >> ELSE key :> val

\* In `new @@ obj` the properties of new are set on obj: @@ keeps the left
\* value of a property both have.

Has(obj, key) == key \in DOMAIN obj

(***************************************************************************)
(* The fixed registries                                                    *)
(***************************************************************************)

IGNORE_DIRS == <<
    <<"n","o","d","e","_","m","o","d","u","l","e","s">>,   \* node_modules
    <<".","g","i","t">>,   \* .git
    <<"b","u","i","l","d">>,   \* build
    <<".","d","a","r","t","_","t","o","o","l">>,   \* .dart_tool
    <<".","p","u","b","-","c","a","c","h","e">>   \* .pub-cache
    >>

DISCOVERED_EXTENSIONS == <<
    <<".","j","s">>,   \* .js
    <<".","j","s","x">>,   \* .jsx
    <<".","t","s">>,   \* .ts
    <<".","t","s","x">>,   \* .tsx
    <<".","d","a","r","t">>,   \* .dart
    <<".","j","a","v","a">>,   \* .java
    <<".","k","t">>,   \* .kt
    <<".","x","m","l">>   \* .xml
    >>

FLUTTER_WIDGETS == <<
    <<"W","i","d","g","e","t">>,   \* Widget
    <<"S","t","a","t","e","l","e","s","s","W","i","d","g","e","t">>,   \* StatelessWidget
    <<"S","t","a","t","e","f","u","l","W","i","d","g","e","t">>,   \* StatefulWidget
    <<"M","a","t","e","r","i","a","l","A","p","p">>,   \* MaterialApp
    <<"S","c","a","f","f","o","l","d">>,   \* Scaffold
    <<"A","p","p","B","a","r">>,   \* AppBar
    <<"C","o","n","t","a","i","n","e","r">>,   \* Container
    <<"R","o","w">>,   \* Row
    <<"C","o","l","u","m","n">>,   \* Column
    <<"T","e","x","t">>,   \* Text
    <<"L","i","s","t","V","i","e","w">>,   \* ListView
    <<"S","t","a","c","k">>,   \* Stack
    <<"C","a","r","d">>,   \* Card
    <<"L","i","s","t","T","i","l","e">>,   \* ListTile
    <<"F","l","o","a","t","i","n","g","A","c","t","i","o","n","B","u","t","t","o","n">>,   \* FloatingActionButton
    <<"B","o","t","t","o","m","N","a","v","i","g","a","t","i","o","n","B","a","r">>,   \* BottomNavigationBar
    <<"D","r","a","w","e","r">>,   \* Drawer
    <<"S","n","a","c","k","B","a","r">>,   \* SnackBar
    <<"A","l","e","r","t","D","i","a","l","o","g">>,   \* AlertDialog
    <<"T","e","x","t","F","i","e","l","d">>,   \* TextField
    <<"E","l","e","v","a","t","e","d","B","u","t","t","o","n">>,   \* ElevatedButton
    <<"T","e","x","t","B","u","t","t","o","n">>,   \* TextButton
    <<"I","c","o","n","B","u","t","t","o","n">>,   \* IconButton
    <<"O","u","t","l","i","n","e","d","B","u","t","t","o","n">>,   \* OutlinedButton
    <<"P","a","d","d","i","n","g">>,   \* Padding
    <<"C","e","n","t","e","r">>,   \* Center
    <<"A","l","i","g","n">>,   \* Align
    <<"S","i","z","e","d","B","o","x">>,   \* SizedBox
    <<"E","x","p","a","n","d","e","d">>,   \* Expanded
    <<"F","l","e","x","i","b","l","e">>,   \* Flexible
    <<"W","r","a","p">>,   \* Wrap
    <<"G","r","i","d","V","i","e","w">>,   \* GridView
    <<"C","u","s","t","o","m","S","c","r","o","l","l","V","i","e","w">>,   \* CustomScrollView
    <<"S","i","n","g","l","e","C","h","i","l","d","S","c","r","o","l","l","V","i","e","w">>,   \* SingleChildScrollView
    <<"N","a","v","i","g","a","t","o","r">>,   \* Navigator
    <<"R","o","u","t","e">>,   \* Route
    <<"M","a","t","e","r","i","a","l","P","a","g","e","R","o","u","t","e">>,   \* MaterialPageRoute
    <<"C","u","p","e","r","t","i","n","o","P","a","g","e","R","o","u","t","e">>,   \* CupertinoPageRoute
    <<"C","h","a","n","g","e","N","o","t","i","f","i","e","r">>,   \* ChangeNotifier
    <<"V","a","l","u","e","N","o","t","i","f","i","e","r">>,   \* ValueNotifier
    <<"S","t","r","e","a","m","B","u","i","l","d","e","r">>,   \* StreamBuilder
    <<"F","u","t","u","r","e","B","u","i","l","d","e","r">>,   \* FutureBuilder
    <<"A","n","i","m","a","t","i","o","n","C","o","n","t","r","o","l","l","e","r">>,   \* AnimationController
    <<"A","n","i","m","a","t","i","o","n">>,   \* Animation
    <<"T","w","e","e","n">>,   \* Tween
    <<"A","n","i","m","a","t","e","d","B","u","i","l","d","e","r">>,   \* AnimatedBuilder
    <<"F","u","t","u","r","e","B","u","i","l","d","e","r">>,   \* FutureBuilder
    <<"S","t","r","e","a","m","B","u","i","l","d","e","r">>,   \* StreamBuilder
    <<"G","e","s","t","u","r","e","D","e","t","e","c","t","o","r">>,   \* GestureDetector
    <<"I","n","k","W","e","l","l">>,   \* InkWell
    <<"D","r","a","g","T","a","r","g","e","t">>,   \* DragTarget
    <<"D","r","a","g","g","a","b","l","e">>,   \* Draggable
    <<"I","m","a","g","e">>,   \* Image
    <<"I","c","o","n">>,   \* Icon
    <<"A","s","s","e","t","I","m","a","g","e">>,   \* AssetImage
    <<"N","e","t","w","o","r","k","I","m","a","g","e">>   \* NetworkImage
    >>

DART_STATE_MANAGEMENT == <<
    <<"C","h","a","n","g","e","N","o","t","i","f","i","e","r">>,   \* ChangeNotifier
    <<"V","a","l","u","e","N","o","t","i","f","i","e","r">>,   \* ValueNotifier
    <<"S","t","r","e","a","m","C","o","n","t","r","o","l","l","e","r">>,   \* StreamController
    <<"B","e","h","a","v","i","o","r","S","u","b","j","e","c","t">>,   \* BehaviorSubject
    <<"S","t","o","r","e">>,   \* Store
    <<"C","u","b","i","t">>,   \* Cubit
    <<"B","l","o","c">>,   \* Bloc
    <<"S","t","a","t","e","N","o","t","i","f","i","e","r">>,   \* StateNotifier
    <<"C","h","a","n","g","e","N","o","t","i","f","i","e","r","P","r","o","v","i","d","e","r">>,   \* ChangeNotifierProvider
    <<"P","r","o","v","i","d","e","r">>,   \* Provider
    <<"G","e","t","x","C","o","n","t","r","o","l","l","e","r">>,   \* GetxController
    <<"M","o","b","X","S","t","o","r","e">>,   \* MobXStore
    <<"R","i","v","e","r","p","o","d">>   \* Riverpod
    >>

DART_ANNOTATIONS == <<
    <<"@","i","m","m","u","t","a","b","l","e">>,   \* @immutable
    <<"@","r","e","q","u","i","r","e","d">>,   \* @required
    <<"@","o","v","e","r","r","i","d","e">>,   \* @override
    <<"@","v","i","s","i","b","l","e","F","o","r","T","e","s","t","i","n","g">>,   \* @visibleForTesting
    <<"@","p","r","o","t","e","c","t","e","d">>,   \* @protected
    <<"@","m","u","s","t","C","a","l","l","S","u","p","e","r">>,   \* @mustCallSuper
    <<"@","f","a","c","t","o","r","y">>,   \* @factory
    <<"@","H","i","v","e","T","y","p","e">>,   \* @HiveType
    <<"@","J","s","o","n","S","e","r","i","a","l","i","z","a","b","l","e">>   \* @JsonSerializable
    >>

ANDROID_COMPONENTS == <<
    <<"A","c","t","i","v","i","t","y">>,   \* Activity
    <<"F","r","a","g","m","e","n","t">>,   \* Fragment
    <<"S","e","r","v","i","c","e">>,   \* Service
    <<"B","r","o","a","d","c","a","s","t","R","e","c","e","i","v","e","r">>,   \* BroadcastReceiver
    <<"C","o","n","t","e","n","t","P","r","o","v","i","d","e","r">>,   \* ContentProvider
    <<"A","p","p","l","i","c","a","t","i","o","n">>   \* Application
    >>

WEB_ELEMENTS == <<
    <<"d","i","v">>,   \* div
    <<"s","p","a","n">>,   \* span
    <<"p">>,   \* p
    <<"a">>,   \* a
    <<"b","u","t","t","o","n">>,   \* button
    <<"i","n","p","u","t">>,   \* input
    <<"f","o","r","m">>,   \* form
    <<"i","m","g">>,   \* img
    <<"h","1">>,   \* h1
    <<"h","2">>,   \* h2
    <<"h","3">>,   \* h3
    <<"h","4">>,   \* h4
    <<"h","5">>,   \* h5
    <<"h","6">>,   \* h6
    <<"u","l">>,   \* ul
    <<"o","l">>,   \* ol
    <<"l","i">>,   \* li
    <<"t","a","b","l","e">>,   \* table
    <<"t","r">>,   \* tr
    <<"t","d">>,   \* td
    <<"t","h">>,   \* th
    <<"n","a","v">>,   \* nav
    <<"h","e","a","d","e","r">>,   \* header
    <<"f","o","o","t","e","r">>,   \* footer
    <<"m","a","i","n">>,   \* main
    <<"s","e","c","t","i","o","n">>,   \* section
    <<"a","r","t","i","c","l","e">>,   \* article
    <<"a","s","i","d","e">>,   \* aside
    <<"l","a","b","e","l">>,   \* label
    <<"s","e","l","e","c","t">>,   \* select
    <<"o","p","t","i","o","n">>,   \* option
    <<"t","e","x","t","a","r","e","a">>,   \* textarea
    <<"b","r">>,   \* br
    <<"h","r">>,   \* hr
    <<"c","a","n","v","a","s">>,   \* canvas
    <<"s","v","g">>,   \* svg
    <<"p","a","t","h">>,   \* path
    <<"c","i","r","c","l","e">>,   \* circle
    <<"r","e","c","t">>,   \* rect
    <<"v","i","d","e","o">>,   \* video
    <<"a","u","d","i","o">>,   \* audio
    <<"s","o","u","r","c","e">>,   \* source
    <<"i","f","r","a","m","e">>,   \* iframe
    <<"s","c","r","i","p","t">>,   \* script
    <<"s","t","y","l","e">>,   \* style
    <<"l","i","n","k">>,   \* link
    <<"m","e","t","a">>,   \* meta
    <<"t","i","t","l","e">>,   \* title
    <<"h","e","a","d">>,   \* head
    <<"b","o","d","y">>,   \* body
    <<"h","t","m","l">>   \* html
    >>

(***************************************************************************)
(* Regular expressions. A pattern is a sequence of items and is matched as *)
(* the JavaScript engine matches it: by backtracking, every quantifier     *)
(* greedy, an optional group tried before it is skipped.                   *)
(***************************************************************************)

\* a literal
Lit(s) == [t |-> "lit", s |-> s]

\* [set]+
Plus(set) == [t |-> "plus", neg |-> FALSE, set |-> set]

\* [set], one character
One(set) == [t |-> "one", set |-> set]

\* [^set]+
PlusNot(set) == [t |-> "plus", neg |-> TRUE, set |-> set]

\* (body), the capturing group number id
Cap(id, body) == [t |-> "cap", id |-> id, body |-> body]

\* (?:body)?
Opt(body) == [t |-> "opt", body |-> body]

\* the result of a match attempt that fails
NoMatch == [ok |-> FALSE]

\* the end (exclusive) of the longest run from index i of characters c with
\* (c \in set) # neg
RECURSIVE RunEnd(_, _, _, _)
RunEnd(text, i, set, neg) ==
    IF i <= Len(text) /\ (text[i] \in set) # neg
      THEN RunEnd(text, i + 1, set, neg)
      ELSE i

\* The match of the items at index pos, with the groups captured so far:
\* [ok, end, caps], caps[id] being << >> (undefined) or <<captured text>>.
RECURSIVE MatchAt(_, _, _, _)
RECURSIVE MatchPlus(_, _, _, _, _)

\* a quantified item followed by rest: the longest run first, then shorter ones
MatchPlus(text, pos, end, rest, caps) ==
    IF end <= pos THEN NoMatch
    ELSE LET r == MatchAt(text, end, rest, caps)
         IN  IF r.ok THEN r ELSE MatchPlus(text, pos, end - 1, rest, caps)

MatchAt(text, pos, items, caps) ==
    IF items = << >> THEN [ok |-> TRUE, end |-> pos, caps |-> caps]
    ELSE LET it == Head(items)
         IN  CASE it.t = "lit" ->
                    IF StartsAt(text, pos, it.s)
                      THEN MatchAt(text, pos + Len(it.s), Tail(items), caps)
                      ELSE NoMatch
               [] it.t = "one" ->
                    IF pos <= Len(text) /\ text[pos] \in it.set
                      THEN MatchAt(text, pos + 1, Tail(items), caps)
                      ELSE NoMatch
               [] it.t = "plus" ->
                    MatchPlus(text, pos, RunEnd(text, pos, it.set, it.neg),
                              Tail(items), caps)
               [] it.t = "cap" ->
                    MatchAt(text, pos,
                            it.body \o <<[t |-> "capEnd", id |-> it.id, start |-> pos]>>
                              \o Tail(items),
                            caps)
               [] it.t = "capEnd" ->
                    MatchAt(text, pos, Tail(items),
                            [caps EXCEPT ![it.id] = <<SubSeq(text, it.start, pos - 1)>>])
               [] it.t = "opt" ->
                    LET r == MatchAt(text, pos, it.body \o Tail(items), caps)
                    IN  IF r.ok THEN r ELSE MatchAt(text, pos, Tail(items), caps)

\* the groups of a regular expression before a match
NoCaps == [id \in 1..4 |-> << >>]

\* while ((match = regex.exec(text)) !== null) for a /g regex: the captures of
\* the successive matches, each searched from the end of the one before
\* (from is lastIndex + 1)
RECURSIVE ExecAll(_, _, _)
ExecAll(regex, text, from) ==
    LET ps == {p \in from..Len(text) : MatchAt(text, p, regex, NoCaps).ok}
    IN  IF ps = {} THEN << >>
        ELSE LET m == MatchAt(text, Min(ps), regex, NoCaps)
             IN  <<m.caps>> \o ExecAll(regex, text, m.end)

\* /class\s+(\w+)(?:\s+extends\s+(\w+))?(?:\s+implements\s+(\w+))?(?:\s+with\s+([^{]+))?/g
dartClassRegex ==
    <<Lit(<<"c","l","a","s","s">>), Plus(SpaceChar), Cap(1, <<Plus(WordChar)>>),
      Opt(<<Plus(SpaceChar), Lit(<<"e","x","t","e","n","d","s">>), Plus(SpaceChar), Cap(2, <<Plus(WordChar)>>)>>),
      Opt(<<Plus(SpaceChar), Lit(<<"i","m","p","l","e","m","e","n","t","s">>), Plus(SpaceChar), Cap(3, <<Plus(WordChar)>>)>>),
      Opt(<<Plus(SpaceChar), Lit(<<"w","i","t","h">>), Plus(SpaceChar), Cap(4, <<PlusNot({"{"})>>)>>)>>

\* /@([a-zA-Z]+)/g
annotationRegex == <<Lit(<<"@">>), Cap(1, <<Plus(Letter)>>)>>

\* /import\s+['"]([^'"]+)['"]/g
importRegex ==
    <<Lit(<<"i","m","p","o","r","t">>), Plus(SpaceChar), One(Quote), Cap(1, <<PlusNot(Quote)>>), One(Quote)>>

\* /import\s+['"]package:([^\/'"]+)/g
packageImportRegex ==
    <<Lit(<<"i","m","p","o","r","t">>), Plus(SpaceChar), One(Quote), Lit(<<"p","a","c","k","a","g","e",":">>),
      Cap(1, <<PlusNot(Quote \cup {"/"})>>)>>

\* /class\s+(\w+)(?:\s+extends\s+(\w+))?(?:\s+implements\s+([^{]+))?/g
androidClassRegex ==
    <<Lit(<<"c","l","a","s","s">>), Plus(SpaceChar), Cap(1, <<Plus(WordChar)>>),
      Opt(<<Plus(SpaceChar), Lit(<<"e","x","t","e","n","d","s">>), Plus(SpaceChar), Cap(2, <<Plus(WordChar)>>)>>),
      Opt(<<Plus(SpaceChar), Lit(<<"i","m","p","l","e","m","e","n","t","s">>), Plus(SpaceChar), Cap(3, <<PlusNot({"{"})>>)>>)>>

\* /package="([^"]+)"/
packageRegex == <<Lit(<<"p","a","c","k","a","g","e","=","\"">>), Cap(1, <<PlusNot({"\""})>>), Lit(<<"\"">>)>>

\* /android:name="([^"]+)"/g
componentRegex == <<Lit(<<"a","n","d","r","o","i","d",":","n","a","m","e","=","\"">>), Cap(1, <<PlusNot({"\""})>>), Lit(<<"\"">>)>>

(***************************************************************************)
(* parseDartFile, getDartDependencies                                      *)
(***************************************************************************)

\* the annotation loop of one class: annotationRegex ends every loop with
\* lastIndex = 0, so each class scans the whole content
RECURSIVE DartAnnotations(_)
DartAnnotations(matches) ==
    IF matches = << >> THEN << >>
    ELSE LET name == <<"@">> \o Head(matches)[1][1]
         IN  (IF name \in Range(DART_ANNOTATIONS) THEN <<name>> ELSE << >>)
               \o DartAnnotations(Tail(matches))

RECURSIVE getDartDependenciesFrom(_, _)
getDartDependenciesFrom(matches, deps) ==
    IF matches = << >> THEN deps
    ELSE getDartDependenciesFrom(Tail(matches), SetAdd(deps, Head(matches)[1][1]))

getDartDependencies(content) ==
    getDartDependenciesFrom(ExecAll(packageImportRegex, content, 1), << >>)

\* `class ${className} extends StatelessWidget`
StatelessText(className) == <<"c","l","a","s","s"," ">> \o className \o <<" ","e","x","t","e","n","d","s"," ","S","t","a","t","e","l","e","s","s","W","i","d","g","e","t">>

\* `class ${className} extends StatefulWidget`
StatefulText(className) == <<"c","l","a","s","s"," ">> \o className \o <<" ","e","x","t","e","n","d","s"," ","S","t","a","t","e","f","u","l","W","i","d","g","e","t">>

\* IsWidget without the two content.includes tests
IsWidgetByRegistry(content, className, extendsClass) ==
    (IF extendsClass = << >> THEN << >> ELSE extendsClass[1]) \in Range(FLUTTER_WIDGETS)

\* extendsClass is << >> (undefined) or <<name>>
IsWidget(content, className, extendsClass) ==
    \/ (IF extendsClass = << >> THEN << >> ELSE extendsClass[1])
          \in Range(FLUTTER_WIDGETS)
    \/ Includes(content, StatelessText(className))
    \/ Includes(content, StatefulText(className))

IsStateless(content, className) == Includes(content, StatelessText(className))

IsStateful(content, className) == Includes(content, StatefulText(className))

\* DartStateManagement looking at the superclass of the class alone
DartStateManagementOfClass(content, extendsClass) ==
    LET hits == {i \in 1..Len(DART_STATE_MANAGEMENT) :
                    /\ extendsClass # << >>
                    /\ Includes(extendsClass[1], DART_STATE_MANAGEMENT[i])}
    IN  IF hits = {} THEN << >> ELSE <<DART_STATE_MANAGEMENT[Min(hits)]>>

\* Array.from(DART_PATTERNS.stateManagement).find(...): << >> or <<pattern>>
DartStateManagement(content, extendsClass) ==
    LET hits == {i \in 1..Len(DART_STATE_MANAGEMENT) :
                    \/ Includes(content, DART_STATE_MANAGEMENT[i])
                    \/ /\ extendsClass # << >>
                       /\ Includes(extendsClass[1], DART_STATE_MANAGEMENT[i])}
    IN  IF hits = {} THEN << >> ELSE <<DART_STATE_MANAGEMENT[Min(hits)]>>

\* the symbol pushed for one class match: match[1] is className, match[2]
\* extendsClass
DartSymbol(content, match) ==
    NonEmptyField("annotations", DartAnnotations(ExecAll(annotationRegex, content, 1)))
      @@ OptField("stateManagement", DartStateManagement(content, match[2]))
      @@ OptField("extends", match[2])
      @@ [name         |-> match[1][1],
          kind         |-> "class",
          isWidget     |-> IsWidget(content, match[1][1], match[2]),
          isStateless  |-> IsStateless(content, match[1][1]),
          isStateful   |-> IsStateful(content, match[1][1]),
          dependencies |-> getDartDependencies(content)]

\* the five statePatterns.add tests for one import path
AddStatePatterns(statePatterns, importPath) ==
    LET p1 == IF Includes(importPath, <<"p","r","o","v","i","d","e","r">>)
                THEN SetAdd(statePatterns, <<"P","r","o","v","i","d","e","r">>) ELSE statePatterns
        p2 == IF Includes(importPath, <<"b","l","o","c">>) THEN SetAdd(p1, <<"B","L","o","C">>) ELSE p1
        p3 == IF Includes(importPath, <<"g","e","t">>) THEN SetAdd(p2, <<"G","e","t","X">>) ELSE p2
        p4 == IF Includes(importPath, <<"m","o","b","x">>) THEN SetAdd(p3, <<"M","o","b","X">>) ELSE p3
    IN  IF Includes(importPath, <<"r","i","v","e","r","p","o","d">>) THEN SetAdd(p4, <<"R","i","v","e","r","p","o","d">>) ELSE p4

RECURSIVE DartStatePatterns(_, _)
DartStatePatterns(paths, statePatterns) ==
    IF paths = << >> THEN statePatterns
    ELSE DartStatePatterns(Tail(paths), AddStatePatterns(statePatterns, Head(paths)))

\* Array.prototype.join
RECURSIVE Join(_, _)
Join(strs, sep) ==
    IF strs = << >> THEN << >>
    ELSE IF Len(strs) = 1 THEN strs[1]
    ELSE strs[1] \o sep \o Join(Tail(strs), sep)

parseDartFile(filePath, content, info) ==
    LET matches == ExecAll(dartClassRegex, content, 1)
        imps    == ExecAll(importRegex, content, 1)
        paths   == [i \in 1..Len(imps) |-> imps[i][1][1]]
    IN  NonEmptyField("statePattern", Join(DartStatePatterns(paths, << >>), <<","," ">>))
          @@ [isTestFile     |-> \/ Includes(filePath, <<"_","t","e","s","t",".","d","a","r","t">>)
                                 \/ Includes(filePath, <<".","t","e","s","t",".","d","a","r","t">>),
              hasWidgetTests |-> \/ Includes(content, <<"t","e","s","t","W","i","d","g","e","t","s","(">>)
                                 \/ Includes(content, <<"W","i","d","g","e","t","T","e","s","t","e","r">>),
              symbols |-> info.symbols
                            \o [i \in 1..Len(matches) |-> DartSymbol(content, matches[i])],
              imports |-> info.imports
                            \o [i \in 1..Len(paths) |->
                                  [source |-> paths[i], specifiers |-> << >>]]]
          @@ info

(***************************************************************************)
(* parseAndroidFile, parseAndroidManifest                                  *)
(***************************************************************************)

\* match[1] is className, match[2] extendsClass
AndroidSymbol(match) ==
    OptField("androidComponent",
             IF match[2] # << >> /\ match[2][1] \in Range(ANDROID_COMPONENTS)
               THEN match[2] ELSE << >>)
      @@ OptField("extends", match[2])
      @@ [name |-> match[1][1], kind |-> "class"]

parseAndroidFile(filePath, content, info) ==
    LET matches == ExecAll(androidClassRegex, content, 1)
    IN  Field("symbols",
              info.symbols \o [i \in 1..Len(matches) |-> AndroidSymbol(matches[i])])
          @@ info

\* parseAndroidManifest with components collected into a Set
parseAndroidManifestDistinct(content) ==
    LET packageMatch == ExecAll(packageRegex, content, 1)
        components   == ExecAll(componentRegex, content, 1)
    IN  OptField("package",
                 IF packageMatch = << >> THEN << >> ELSE packageMatch[1][1])
          @@ [components |->
                SetAddAll(<< >>, [i \in 1..Len(components) |-> components[i][1][1]])]

parseAndroidManifest(content) ==
    LET packageMatch == ExecAll(packageRegex, content, 1)
        components   == ExecAll(componentRegex, content, 1)
    IN  OptField("package",
                 IF packageMatch = << >> THEN << >> ELSE packageMatch[1][1])
          @@ [components |-> [i \in 1..Len(components) |-> components[i][1][1]]]

(***************************************************************************)
(* processNode: the visitor of the grammar-based extractor. Its closure    *)
(* variables symbols, imports, hasJsx and jsxElements are the record acc,  *)
(* passed through the traversal in the order the code updates them.        *)
(***************************************************************************)

Node(type, text, children) == [type |-> type, text |-> text, children |-> children]

\* children.find((n) => types.includes(n.type)): << >> (undefined) or <<child>>
FindType(children, types) ==
    LET idx == {i \in 1..Len(children) : children[i].type \in types}
    IN  IF idx = {} THEN << >> ELSE <<children[Min(idx)]>>

\* found?.text: the empty string stands for undefined too, both are falsy and
\* the code only tests the result for truth before using it
TextOf(found) == IF found = << >> THEN << >> ELSE found[1].text

NewAcc == [symbols |-> << >>, imports |-> << >>, hasJsx |-> FALSE, jsxElements |-> << >>]

\* .filter(import_specifier).map(identifier text).filter(Boolean)
RECURSIVE SpecifierNames(_)
SpecifierNames(children) ==
    IF children = << >> THEN << >>
    ELSE LET name == TextOf(FindType(Head(children).children, {"identifier"}))
         IN  (IF Head(children).type = "import_specifier" /\ name # << >>
                THEN <<name>> ELSE << >>) \o SpecifierNames(Tail(children))

\* jsxElements.add(name) unless the name is empty or a standard element
AddJsxElement(acc, name) ==
    IF name # << >> /\ toLowerCase(name) \notin Range(WEB_ELEMENTS)
      THEN [acc EXCEPT !.hasJsx = TRUE, !.jsxElements = SetAdd(@, name)]
      ELSE [acc EXCEPT !.hasJsx = TRUE]

RECURSIVE processNode(_, _)
RECURSIVE processChildren(_, _, _)
RECURSIVE processMembers(_, _, _)
RECURSIVE processCase(_, _)

\* for (let i = 0; i < node.childCount; i++) processNode(node.child(i));
\* what the visit has collected is a value before the next child is visited
processChildren(children, i, acc) ==
    IF i > Len(children) \/ DOMAIN acc = {} THEN acc
    ELSE processChildren(children, i + 1, processNode(children[i], acc))

\* the loop over the members of a class body; st is [acc, properties, methods]
processMembers(members, i, st) ==
    IF i > Len(members) THEN st
    ELSE LET member == members[i]
             name   == TextOf(FindType(member.children, {"property_identifier"}))
             next   ==
               CASE member.type = "method_definition" ->
                      IF name # << >>
                        THEN [st EXCEPT !.methods = Append(@, name)] ELSE st
                 [] member.type \in {"public_field_definition",
                                     "private_field_definition"} ->
                      IF name # << >>
                        THEN [st EXCEPT !.properties = Append(@, name)] ELSE st
                 [] member.type = "class_declaration" ->
                      [st EXCEPT !.acc = processNode(member, st.acc)]
                 [] OTHER -> st
         IN  processMembers(members, i + 1, next)

\* the switch (node.type) of processNode
processCase(node, acc) ==
    CASE node.type = "function_declaration" ->
           LET funcName == TextOf(FindType(node.children, {"identifier"}))
           IN  IF funcName # << >>
                 THEN [acc EXCEPT !.symbols =
                         Append(@, [name |-> funcName, kind |-> "function"])]
                 ELSE acc
      [] node.type = "lexical_declaration" ->
           LET declarator == FindType(node.children, {"variable_declarator"})
               name  == IF declarator = << >> THEN << >>
                        ELSE TextOf(FindType(declarator[1].children, {"identifier"}))
               value == IF declarator = << >> THEN << >>
                        ELSE FindType(declarator[1].children,
                                      {"arrow_function", "function"})
           IN  IF name # << >> /\ value # << >>
                 THEN [acc EXCEPT !.symbols =
                         Append(@, [name |-> name, kind |-> "function"])]
                 ELSE acc
      [] node.type = "export_statement" ->
           LET declaration == FindType(node.children,
                 {"lexical_declaration", "function_declaration", "class_declaration"})
           IN  IF declaration # << >> THEN processNode(declaration[1], acc) ELSE acc
      [] node.type = "class_declaration" ->
           LET className == TextOf(FindType(node.children, {"identifier"}))
               heritage  == FindType(node.children, {"class_heritage"})
               clause    == IF heritage = << >> THEN << >>
                            ELSE FindType(heritage[1].children, {"extends_clause"})
               superclass == IF clause = << >> THEN << >>
                             ELSE TextOf(FindType(clause[1].children, {"identifier"}))
               body == FindType(node.children, {"class_body"})
               st0  == [acc |-> acc, properties |-> << >>, methods |-> << >>]
               st   == IF body = << >> THEN st0
                       ELSE processMembers(body[1].children, 1, st0)
               classInfo == NonEmptyField("methods", st.methods)
                              @@ NonEmptyField("properties", st.properties)
                              @@ NonEmptyField("extends", superclass)
                              @@ [name |-> className, kind |-> "class"]
           IN  IF className # << >>
                 THEN [st.acc EXCEPT !.symbols = Append(@, classInfo)]
                 ELSE acc
      [] node.type = "import_statement" ->
           LET str    == TextOf(FindType(node.children, {"string"}))
               source == Slice1(str)
               specifiers == SpecifierNames(node.children)
           IN  IF source # << >>
                 THEN IF specifiers # << >>
                        THEN [acc EXCEPT !.imports =
                                Append(@, [source |-> source, specifiers |-> specifiers])]
                        ELSE [acc EXCEPT !.imports = Append(@, [source |-> source])]
                 ELSE acc
      [] node.type = "call_expression" ->
           IF /\ Len(node.children) >= 2
              /\ node.children[1].text = <<"r","e","q","u","i","r","e">>
              /\ Len(node.children[2].children) >= 1
              /\ node.children[2].children[1].type = "string"
             THEN [acc EXCEPT !.imports =
                     Append(@, [source |-> Slice1(node.children[2].children[1].text)])]
             ELSE acc
      [] node.type = "jsx_element" ->
           AddJsxElement(acc,
             IF Len(node.children) >= 1 /\ Len(node.children[1].children) >= 1
               THEN node.children[1].children[1].text ELSE << >>)
      [] node.type = "jsx_self_closing_element" ->
           AddJsxElement(acc,
             IF Len(node.children) >= 1 THEN node.children[1].text ELSE << >>)
      [] node.type = "jsx_fragment" -> [acc EXCEPT !.hasJsx = TRUE]
      [] OTHER -> acc

processNode(node, acc) == processChildren(node.children, 1, processCase(node, acc))

(***************************************************************************)
(* parseFile: the dispatcher. A file is [path, text, parse]: text is what  *)
(* readFileSync returns, parse.js and parse.ts are the root nodes the two  *)
(* parsers (tree-sitter-javascript, tree-sitter-typescript tsx) give for   *)
(* that text.                                                              *)
(***************************************************************************)

parseFile(f) ==
    LET filePath == f.path
        content  == f.text
        ext      == toLowerCase(extname(filePath))
        rootNode == IF ext \in {<<".","t","s">>, <<".","t","s","x">>} THEN f.parse.ts ELSE f.parse.js
        info == [file          |-> filePath,
                 symbols       |-> << >>,
                 imports       |-> << >>,
                 isDartFile    |-> ext = <<".","d","a","r","t">>,
                 isFlutterFile |-> ext = <<".","d","a","r","t">> /\ Includes(content, <<"p","a","c","k","a","g","e",":","f","l","u","t","t","e","r">>),
                 isAndroidFile |-> ext \in {<<".","j","a","v","a">>, <<".","k","t">>, <<".","x","m","l">>}]
        acc == processNode(rootNode, NewAcc)
    IN  IF EndsWith(filePath, <<"A","n","d","r","o","i","d","M","a","n","i","f","e","s","t",".","x","m","l">>)
          THEN Field("androidManifest", parseAndroidManifest(content)) @@ info
        ELSE IF info.isDartFile THEN parseDartFile(filePath, content, info)
        ELSE IF info.isAndroidFile /\ ext # <<".","x","m","l">>
          THEN parseAndroidFile(filePath, content, info)
        ELSE (IF acc.hasJsx
                THEN NonEmptyField("jsxElements", acc.jsxElements) @@ Field("hasJsx", TRUE)
                ELSE << >>)
               @@ NonEmptyField("imports", acc.imports)
               @@ NonEmptyField("symbols", acc.symbols)
               @@ info

(***************************************************************************)
(* The syntax trees parser.parse returns, built as the two grammars build  *)
(* them. g is "js" (tree-sitter-javascript, used for .js, .jsx and for any *)
(* .xml that is no manifest) or "ts" (tree-sitter-typescript tsx). The     *)
(* grammars differ in three places the visitor reads: a class name is an   *)
(* identifier in js and a type_identifier in ts; class_heritage holds      *)
(* `extends` and the expression in js and an extends_clause in ts; a class *)
(* field is a field_definition in js and a public_field_definition in ts.  *)
(***************************************************************************)

Tok(type, text) == Node(type, text, << >>)

Id(name) == Node("identifier", name, << >>)

PropId(name) == Node("property_identifier", name, << >>)

\* a string literal: its text keeps the quotes
Str(s) ==
    Node("string", <<"\"">> \o s \o <<"\"">>,
         <<Tok("\"", <<"\"">>), Node("string_fragment", s, << >>), Tok("\"", <<"\"">>)>>)

Num == Node("number", <<"1">>, << >>)

\* the items with the token sep between them
RECURSIVE Separated(_, _)
Separated(items, sep) ==
    IF Len(items) <= 1 THEN items
    ELSE <<items[1], sep>> \o Separated(Tail(items), sep)

Params == Node("formal_parameters", << >>, <<Tok("(", <<"(">>), Tok(")", <<")">>)>>)

Block(stmts) ==
    Node("statement_block", << >>, <<Tok("{", <<"{">>)>> \o stmts \o <<Tok("}", <<"}">>)>>)

\* function name() {}
FunctionDeclaration(name) ==
    Node("function_declaration", << >>,
         <<Tok("function", <<"f","u","n","c","t","i","o","n">>), Id(name), Params, Block(<< >>)>>)

\* function name() { stmts }
FunctionDeclarationWith(name, stmts) ==
    Node("function_declaration", << >>,
         <<Tok("function", <<"f","u","n","c","t","i","o","n">>), Id(name), Params, Block(stmts)>>)

\* () => {}
ArrowFunction ==
    Node("arrow_function", << >>, <<Params, Tok("=>", <<"=",">">>), Block(<< >>)>>)

\* function () {}
FunctionExpression ==
    Node("function", << >>, <<Tok("function", <<"f","u","n","c","t","i","o","n">>), Params, Block(<< >>)>>)

\* name = value
VariableDeclarator(name, value) ==
    Node("variable_declarator", << >>, <<Id(name), Tok("=", <<"=">>), value>>)

\* const d1, d2;
LexicalDeclaration(declarators) ==
    Node("lexical_declaration", << >>,
         <<Tok("const", <<"c","o","n","s","t">>)>> \o Separated(declarators, Tok(",", <<",">>))
           \o <<Tok(";", <<";">>)>>)

\* export decl
ExportStatement(decl) ==
    Node("export_statement", << >>, <<Tok("export", <<"e","x","p","o","r","t">>), decl>>)

ClassHeritage(g, super) ==
    IF g = "ts"
      THEN Node("class_heritage", << >>,
             <<Node("extends_clause", << >>, <<Tok("extends", <<"e","x","t","e","n","d","s">>), Id(super)>>)>>)
      ELSE Node("class_heritage", << >>, <<Tok("extends", <<"e","x","t","e","n","d","s">>), Id(super)>>)

\* class name [extends super[1]] { members }
ClassDeclaration(g, name, super, members) ==
    Node("class_declaration", << >>,
         <<Tok("class", <<"c","l","a","s","s">>),
           IF g = "ts" THEN Node("type_identifier", name, << >>) ELSE Id(name)>>
           \o (IF super = << >> THEN << >> ELSE <<ClassHeritage(g, super[1])>>)
           \o <<Node("class_body", << >>,
                     <<Tok("{", <<"{">>)>> \o members \o <<Tok("}", <<"}">>)>>)>>)

\* name() { stmts }
MethodDefinition(name, stmts) ==
    Node("method_definition", << >>, <<PropId(name), Params, Block(stmts)>>)

\* name = 1
FieldDefinition(g, name) ==
    Node(IF g = "ts" THEN "public_field_definition" ELSE "field_definition",
         << >>, <<PropId(name), Tok("=", <<"=">>), Num>>)

\* { n1, n2 }
NamedImports(names) ==
    Node("import_clause", << >>,
         <<Node("named_imports", << >>,
                <<Tok("{", <<"{">>)>>
                  \o Separated([i \in 1..Len(names) |->
                                  Node("import_specifier", << >>, <<Id(names[i])>>)],
                               Tok(",", <<",">>))
                  \o <<Tok("}", <<"}">>)>>)>>)

\* name
DefaultImport(name) == Node("import_clause", << >>, <<Id(name)>>)

\* * as name
NamespaceImport(name) ==
    Node("import_clause", << >>,
         <<Node("namespace_import", << >>,
                <<Tok("*", <<"*">>), Tok("as", <<"a","s">>), Id(name)>>)>>)

\* import clause[1] from "source";   or   import "source";
ImportStatement(clause, source) ==
    Node("import_statement", << >>,
         <<Tok("import", <<"i","m","p","o","r","t">>)>>
           \o (IF clause = << >> THEN << >> ELSE <<clause[1], Tok("from", <<"f","r","o","m">>)>>)
           \o <<Str(source), Tok(";", <<";">>)>>)

\* fn(args)
CallExpression(fn, args) ==
    Node("call_expression", << >>,
         <<Id(fn),
           Node("arguments", << >>,
                <<Tok("(", <<"(">>)>> \o Separated(args, Tok(",", <<",">>)) \o <<Tok(")", <<")">>)>>)>>)

\* e;
ExpressionStatement(e) == Node("expression_statement", << >>, <<e, Tok(";", <<";">>)>>)

\* <name>children</name>
JsxElement(name, children) ==
    Node("jsx_element", << >>,
         <<Node("jsx_opening_element", << >>,
                <<Tok("<", <<"<">>), Id(name), Tok(">", <<">">>)>>)>>
           \o children
           \o <<Node("jsx_closing_element", << >>,
                     <<Tok("<", <<"<">>), Tok("/", <<"/">>), Id(name), Tok(">", <<">">>)>>)>>)

\* <name/>
JsxSelfClosingElement(name) ==
    Node("jsx_self_closing_element", << >>,
         <<Tok("<", <<"<">>), Id(name), Tok("/", <<"/">>), Tok(">", <<">">>)>>)

\* <></>
JsxFragment ==
    Node("jsx_fragment", << >>,
         <<Tok("<", <<"<">>), Tok(">", <<">">>), Tok("<", <<"<">>), Tok("/", <<"/">>), Tok(">", <<">">>)>>)

Program(stmts) == Node("program", << >>, stmts)

\* text that is no program: the parser gives an ERROR node and nothing else
ErrorTree == Program(<<Node("ERROR", << >>, << >>)>>)

(***************************************************************************)
(* The file contents the runs draw from                                    *)
(***************************************************************************)

\* ECMAScript sources with the tree each grammar gives for them
Programs(g) == <<
    [text |-> <<>>, root |-> Program(<< >>)],
    [text |-> <<"f","u","n","c","t","i","o","n"," ","f","(",")"," ","{","}">>,
     root |-> Program(<<FunctionDeclaration(<<"f">>)>>)],
    [text |-> <<"c","o","n","s","t"," ","g"," ","="," ","(",")"," ","=",">"," ","{","}",";">>,
     root |-> Program(<<LexicalDeclaration(<<VariableDeclarator(<<"g">>, ArrowFunction)>>)>>)],
    [text |-> <<"c","o","n","s","t"," ","x"," ","="," ","1",","," ","h"," ","="," ","f","u","n","c","t","i","o","n"," ","(",")"," ","{","}",";">>,
     root |-> Program(<<LexicalDeclaration(<<VariableDeclarator(<<"x">>, Num),
                                             VariableDeclarator(<<"h">>, FunctionExpression)>>)>>)],
    [text |-> <<"e","x","p","o","r","t"," ","f","u","n","c","t","i","o","n"," ","f","(",")"," ","{","}">>,
     root |-> Program(<<ExportStatement(FunctionDeclaration(<<"f">>))>>)],
    [text |-> <<"e","x","p","o","r","t"," ","c","l","a","s","s"," ","A"," ","{","}">>,
     root |-> Program(<<ExportStatement(ClassDeclaration(g, <<"A">>, << >>, << >>))>>)],
    [text |-> <<"e","x","p","o","r","t"," ","c","o","n","s","t"," ","k"," ","="," ","(",")"," ","=",">"," ","{","}",";">>,
     root |-> Program(<<ExportStatement(
                LexicalDeclaration(<<VariableDeclarator(<<"k">>, ArrowFunction)>>))>>)],
    [text |-> <<"c","l","a","s","s"," ","D","o","g"," ","e","x","t","e","n","d","s"," ","C","a","t"," ","{"," ","b","a","r","k","(",")"," ","{","}"," ","}">>,
     root |-> Program(<<ClassDeclaration(g, <<"D","o","g">>, <<<<"C","a","t">>>>,
                                         <<MethodDefinition(<<"b","a","r","k">>, << >>)>>)>>)],
    [text |-> <<"c","l","a","s","s"," ","A"," ","{"," ","x"," ","="," ","1",";"," ","m","(",")"," ","{"," ","c","l","a","s","s"," ","B"," ","{","}"," ","}"," ","}">>,
     root |-> Program(<<ClassDeclaration(g, <<"A">>, << >>,
                <<FieldDefinition(g, <<"x">>), Tok(";", <<";">>),
                  MethodDefinition(<<"m">>, <<ClassDeclaration(g, <<"B">>, << >>, << >>)>>)>>)>>)],
    \* a class declaration standing directly in a class body, the member
    \* processNode handles in its `case 'class_declaration'` of the member loop
    [text |-> <<"c","l","a","s","s"," ","A"," ","{"," ","c","l","a","s","s"," ","B"," ","{","}"," ","}">>,
     root |-> Program(<<ClassDeclaration(g, <<"A">>, << >>,
                <<ClassDeclaration(g, <<"B">>, << >>, << >>)>>)>>)],
    [text |-> <<"i","m","p","o","r","t"," ","{","u","s","e","S","t","a","t","e","}"," ","f","r","o","m"," ","\"","r","e","a","c","t","\"",";">>,
     root |-> Program(<<ImportStatement(<<NamedImports(<<<<"u","s","e","S","t","a","t","e">>>>)>>, <<"r","e","a","c","t">>)>>)],
    [text |-> <<"i","m","p","o","r","t"," ","R","e","a","c","t"," ","f","r","o","m"," ","\"","r","e","a","c","t","\"",";">>,
     root |-> Program(<<ImportStatement(<<DefaultImport(<<"R","e","a","c","t">>)>>, <<"r","e","a","c","t">>)>>)],
    [text |-> <<"i","m","p","o","r","t"," ","*"," ","a","s"," ","n","s"," ","f","r","o","m"," ","\"","l","i","b","\"",";">>,
     root |-> Program(<<ImportStatement(<<NamespaceImport(<<"n","s">>)>>, <<"l","i","b">>)>>)],
    [text |-> <<"i","m","p","o","r","t"," ","\"","s","i","d","e","\"",";">>,
     root |-> Program(<<ImportStatement(<< >>, <<"s","i","d","e">>)>>)],
    [text |-> <<"i","m","p","o","r","t"," ","{","a",","," ","b","}"," ","f","r","o","m"," ","\"","x","\"",";"," ","f","u","n","c","t","i","o","n"," ","f","(",")"," ","{","}">>,
     root |-> Program(<<ImportStatement(<<NamedImports(<<<<"a">>, <<"b">>>>)>>, <<"x">>),
                        FunctionDeclaration(<<"f">>)>>)],
    [text |-> <<"c","o","n","s","t"," ","f","s"," ","="," ","r","e","q","u","i","r","e","(","\"","f","s","\"",")",";">>,
     root |-> Program(<<LexicalDeclaration(<<VariableDeclarator(<<"f","s">>,
                CallExpression(<<"r","e","q","u","i","r","e">>, <<Str(<<"f","s">>)>>))>>)>>)],
    [text |-> <<"r","e","q","u","i","r","e","(","n","a","m","e",")",";">>,
     root |-> Program(<<ExpressionStatement(CallExpression(<<"r","e","q","u","i","r","e">>, <<Id(<<"n","a","m","e">>)>>))>>)],
    [text |-> <<"<","F","o","o",">","<","/","F","o","o",">",";">>,
     root |-> Program(<<ExpressionStatement(JsxElement(<<"F","o","o">>, << >>))>>)],
    [text |-> <<"<","F","o","o",">","<","B","a","r","/",">","<","/","F","o","o",">",";">>,
     root |-> Program(<<ExpressionStatement(
                JsxElement(<<"F","o","o">>, <<JsxSelfClosingElement(<<"B","a","r">>)>>))>>)],
    [text |-> <<"<","d","i","v","/",">",";">>,
     root |-> Program(<<ExpressionStatement(JsxSelfClosingElement(<<"d","i","v">>))>>)],
    [text |-> <<"<",">","<","/",">",";">>,
     root |-> Program(<<ExpressionStatement(JsxFragment)>>)],
    [text |-> <<"e","x","p","o","r","t"," ","f","u","n","c","t","i","o","n"," ","f","(",")"," ","{"," ","f","u","n","c","t","i","o","n"," ","g","(",")"," ","{","}"," ","}">>,
     root |-> Program(<<ExportStatement(
                FunctionDeclarationWith(<<"f">>, <<FunctionDeclaration(<<"g">>)>>))>>)],
    \* a statement that ends without `;`
    [text |-> <<"<","L","i","n","e","a","r","L","a","y","o","u","t","/",">">>,
     root |-> Program(<<Node("expression_statement", << >>,
                             <<JsxSelfClosingElement(<<"L","i","n","e","a","r","L","a","y","o","u","t">>)>>)>>)] >>

\* the programs that also occur as a .ts file
TypedPrograms == {2, 6, 8, 9, 11, 18}

NoParse == [js |-> ErrorTree, ts |-> ErrorTree]

EcmaFile(name, i) ==
    [name  |-> name,
     text  |-> Programs("js")[i].text,
     parse |-> [js |-> Programs("js")[i].root, ts |-> Programs("ts")[i].root]]

TextFile(name, text) == [name |-> name, text |-> text, parse |-> NoParse]

DartTexts == {
    <<"c","l","a","s","s"," ","H","o","m","e","P","a","g","e"," ","e","x","t","e","n","d","s"," ","S","t","a","t","e","f","u","l","W","i","d","g","e","t"," ","{","}">>,
    <<"c","l","a","s","s"," ","A"," "," ","e","x","t","e","n","d","s"," ","S","t","a","t","e","l","e","s","s","W","i","d","g","e","t"," ","{","}">>,
    <<"/","/"," ","c","l","a","s","s"," ","A"," ","e","x","t","e","n","d","s"," ","S","t","a","t","e","l","e","s","s","W","i","d","g","e","t","\n","c","l","a","s","s"," ","A"," ","e","x","t","e","n","d","s"," ","S","t","a","t","e","f","u","l","W","i","d","g","e","t"," ","{","}">>,
    <<"c","l","a","s","s"," ","A"," ","e","x","t","e","n","d","s"," ","S","t","a","t","e","l","e","s","s","W","i","d","g","e","t","X"," ","{","}">>,
    <<"i","m","p","o","r","t"," ","'","p","a","c","k","a","g","e",":","f","l","u","t","t","e","r","/","m","a","t","e","r","i","a","l",".","d","a","r","t","'",";","\n","c","l","a","s","s"," ","B"," ","e","x","t","e","n","d","s"," ","S","c","a","f","f","o","l","d"," ","{","}">>,
    <<"i","m","p","o","r","t"," ","'","p","a","c","k","a","g","e",":","p","r","o","v","i","d","e","r","/","p","r","o","v","i","d","e","r",".","d","a","r","t","'",";","\n","@","i","m","m","u","t","a","b","l","e","\n","c","l","a","s","s"," ","C"," ","e","x","t","e","n","d","s"," ","C","h","a","n","g","e","N","o","t","i","f","i","e","r"," ","{","}">>,
    <<"c","l","a","s","s"," ","A"," ","e","x","t","e","n","d","s"," ","B"," ","i","m","p","l","e","m","e","n","t","s"," ","I"," ","w","i","t","h"," ","M"," ","{","}">>,
    <<"c","l","a","s","s"," ","P"," ","{","}">>,
    <<"v","o","i","d"," ","m","a","i","n","(",")"," ","{","}">>,
    <<"i","m","p","o","r","t"," ","'","r","e","a","c","t",".","d","a","r","t","'",";">>,
    <<"i","m","p","o","r","t"," ","'","g","e","t","'",";","\n","i","m","p","o","r","t"," ","'","b","l","o","c","'",";">>,
    <<"i","m","p","o","r","t"," ","'","p","a","c","k","a","g","e",":","p","/","p",".","d","a","r","t","'",";","\n","@","i","m","m","u","t","a","b","l","e","\n","c","l","a","s","s"," ","S"," ","e","x","t","e","n","d","s"," ","C","u","b","i","t"," ","{","}","\n","c","l","a","s","s"," ","T"," ","e","x","t","e","n","d","s"," ","S","t","o","r","e"," ","{","}">> }

\* the files a directory may hold: name in its directory, text, parse trees
Contents ==
    {EcmaFile(<<"a",".","j","s">>, i) : i \in 1..Len(Programs("js"))}
      \cup {EcmaFile(<<"a",".","t","s">>, i) : i \in TypedPrograms}
      \cup {TextFile(<<"w",".","d","a","r","t">>, text) : text \in DartTexts}
      \cup {TextFile(<<"w","_","t","e","s","t",".","d","a","r","t">>, <<"t","e","s","t","W","i","d","g","e","t","s","(","'","x","'",","," ","(","W","i","d","g","e","t","T","e","s","t","e","r"," ","t",")"," ","{","}",")",";">>),
            TextFile(<<"o","l","d","_","t","e","s","t",".","d","a","r","t",".","d","/","w",".","d","a","r","t">>, <<"c","l","a","s","s"," ","P"," ","{","}">>),
            TextFile(<<"M",".","j","a","v","a">>, <<"p","u","b","l","i","c"," ","c","l","a","s","s"," ","M"," ","e","x","t","e","n","d","s"," ","A","c","t","i","v","i","t","y"," ","{","}">>),
            TextFile(<<"M",".","j","a","v","a">>, <<>>),
            TextFile(<<"K",".","k","t">>, <<"c","l","a","s","s"," ","K"," ","e","x","t","e","n","d","s"," ","F","o","o"," ","i","m","p","l","e","m","e","n","t","s"," ","X"," ","{","}">>),
            TextFile(<<"A","n","d","r","o","i","d","M","a","n","i","f","e","s","t",".","x","m","l">>,
              <<"<","m","a","n","i","f","e","s","t"," ","p","a","c","k","a","g","e","=","\"","c","o","m",".","a","p","p","\"",">","<","a","c","t","i","v","i","t","y"," ","a","n","d","r","o","i","d",":","n","a","m","e","=","\"","a","\"","/",">","<","s","e","r","v","i","c","e"," ","a","n","d","r","o","i","d",":","n","a","m","e","=","\"","a","\"","/",">","<","/","m","a","n","i","f","e","s","t",">">>),
            TextFile(<<"A","n","d","r","o","i","d","M","a","n","i","f","e","s","t",".","x","m","l">>, <<"<","m","a","n","i","f","e","s","t",">","<","/","m","a","n","i","f","e","s","t",">">>),
            TextFile(<<"A","n","d","r","o","i","d","M","a","n","i","f","e","s","t",".","x","m","l">>,
              <<"<","m","a","n","i","f","e","s","t"," ","p","a","c","k","a","g","e","=","\"","c","o","m",".","a","p","p","\""," ","p","a","c","k","a","g","e","=","\"","x","\"",">","<","a","c","t","i","v","i","t","y"," ","a","n","d","r","o","i","d",":","n","a","m","e","=","\"",".","B","\"","/",">","<","s","e","r","v","i","c","e"," ","a","n","d","r","o","i","d",":","n","a","m","e","=","\"",".","A","\"","/",">","<","r","e","c","e","i","v","e","r"," ","a","n","d","r","o","i","d",":","n","a","m","e","=","\"",".","B","\"","/",">","<","/","m","a","n","i","f","e","s","t",">">>),
            TextFile(<<"A","n","d","r","o","i","d","M","a","n","i","f","e","s","t",".","x","m","l">>,
              <<"<","m","a","n","i","f","e","s","t",">","<","a","c","t","i","v","i","t","y"," ","a","n","d","r","o","i","d",":","n","a","m","e","=","\"",".","M","a","i","n","\"","/",">","<","/","m","a","n","i","f","e","s","t",">">>),
            TextFile(<<"M","y","A","n","d","r","o","i","d","M","a","n","i","f","e","s","t",".","x","m","l">>, <<"<","m","a","n","i","f","e","s","t"," ","p","a","c","k","a","g","e","=","\"","p","\"",">","<","/","m","a","n","i","f","e","s","t",">">>),
            TextFile(<<"l","a","y","o","u","t",".","x","m","l">>, <<"<","?","x","m","l"," ","v","e","r","s","i","o","n","=","\"","1",".","0","\"","?",">">>),
            EcmaFile(<<"l","a","y","o","u","t",".","x","m","l">>, Len(Programs("js"))),
            TextFile(<<"R","E","A","D","M","E",".","m","d">>, <<"c","l","a","s","s"," ","D","o","c"," ","{","}">>),
            TextFile(<<"b","u","i","l","d","/","o","u","t",".","j","s">>, <<>>)}

\* the largest number of files a run discovers
MaxFiles == 2

\* the i-th discovered file lies in the directory named by the digit i
Files(i) ==
    {[path  |-> <<<<"1","2","3","4","5","6","7","8","9">>[i], "/">> \o c.name,
      text  |-> c.text,
      parse |-> c.parse] : c \in Contents}

(***************************************************************************)
(* getJSFiles                                                              *)
(***************************************************************************)

\* the traversal yields path: no segment of it is an ignored directory and
\* its lower-cased extension is one of the eight listed
Discovered(path) ==
    /\ \A d \in Range(IGNORE_DIRS) : ~Includes(<<"/">> \o path, <<"/">> \o d \o <<"/">>)
    /\ toLowerCase(extname(path)) \in Range(DISCOVERED_EXTENSIONS)

(***************************************************************************)
(* The aggregation loop and the output                                     *)
(***************************************************************************)

\* HasContent without the jsxElements test
HasSymbolsOrImports(info) ==
    \/ Has(info, "symbols") /\ Len(info.symbols) > 0
    \/ Has(info, "imports") /\ Len(info.imports) > 0

\* HasContent with a manifest counted as content
HasContentOrManifest(info) ==
    \/ Has(info, "symbols") /\ Len(info.symbols) > 0
    \/ Has(info, "imports") /\ Len(info.imports) > 0
    \/ Has(info, "jsxElements") /\ Len(info.jsxElements) > 0
    \/ Has(info, "androidManifest")

HasContent(info) ==
    \/ Has(info, "symbols") /\ Len(info.symbols) > 0
    \/ Has(info, "imports") /\ Len(info.imports) > 0
    \/ Has(info, "jsxElements") /\ Len(info.jsxElements) > 0

\* fileInfo.hasJsx || fileInfo.imports?.some(... includes('react'))
UsesReact(info) ==
    \/ Has(info, "hasJsx") /\ info.hasJsx
    \/ /\ Has(info, "imports")
       /\ \E i \in 1..Len(info.imports) : Includes(info.imports[i].source, <<"r","e","a","c","t">>)

\* Fold with the hasReactFiles test moved out of `if (hasContent)`
FoldMarkingAnyFile(report, info) ==
    IF HasContent(info)
      THEN [results           |-> Append(report.results, info),
            allCustomElements |->
              IF Has(info, "jsxElements")
                THEN SetAddAll(report.allCustomElements, info.jsxElements)
                ELSE report.allCustomElements,
            hasReactFiles     |-> report.hasReactFiles \/ UsesReact(info)]
      ELSE [report EXCEPT !.hasReactFiles = @ \/ UsesReact(info)]

\* Fold with hasReactFiles assigned the test's value instead of set on true
FoldAssigningFlag(report, info) ==
    IF HasContent(info)
      THEN [results           |-> Append(report.results, info),
            allCustomElements |->
              IF Has(info, "jsxElements")
                THEN SetAddAll(report.allCustomElements, info.jsxElements)
                ELSE report.allCustomElements,
            hasReactFiles     |-> UsesReact(info)]
      ELSE report

\* Fold with hasReactFiles decided by the first file appended
FoldFirstFileDecides(report, info) ==
    IF HasContent(info)
      THEN [results           |-> Append(report.results, info),
            allCustomElements |->
              IF Has(info, "jsxElements")
                THEN SetAddAll(report.allCustomElements, info.jsxElements)
                ELSE report.allCustomElements,
            hasReactFiles     |-> IF report.results = << >>
                                    THEN UsesReact(info)
                                    ELSE report.hasReactFiles]
      ELSE report

\* the body of `if (hasContent)`; report is [results, hasReactFiles, allCustomElements]
Fold(report, info) ==
    IF HasContent(info)
      THEN [results           |-> Append(report.results, info),
            allCustomElements |->
              IF Has(info, "jsxElements")
                THEN SetAddAll(report.allCustomElements, info.jsxElements)
                ELSE report.allCustomElements,
            hasReactFiles     |-> report.hasReactFiles \/ UsesReact(info)]
      ELSE report

\* parseFile of every file a run may discover, computed once: parseFile is
\* a function of the file alone
Parsed == [f \in UNION {Files(i) : i \in 1..MaxFiles} |-> parseFile(f)] @@ << >>

None == << >>

Init ==
    /\ pc = "loop"
    /\ n = 0
    /\ file = None
    /\ readOk = TRUE
    /\ fileInfo = None
    /\ results = << >>
    /\ hasReactFiles = FALSE
    /\ allCustomElements = << >>
    /\ output = None

\* ProcessFile with the symbols array kept from one parseFile call to the
\* next
ProcessFileKeepingSymbols(f) ==
    /\ pc = "loop"
    /\ n < MaxFiles
    /\ Discovered(f.path)
    /\ LET info   == IF n = 0 THEN Parsed[f]
                     ELSE [Parsed[f] EXCEPT !.symbols = fileInfo.symbols \o @]
           report == Fold([results           |-> results,
                           hasReactFiles     |-> hasReactFiles,
                           allCustomElements |-> allCustomElements], info)
       IN  /\ fileInfo' = info
           /\ results' = report.results
           /\ hasReactFiles' = report.hasReactFiles
           /\ allCustomElements' = report.allCustomElements
    /\ n' = n + 1
    /\ file' = f
    /\ readOk' = TRUE
    /\ UNCHANGED <<pc, output>>

\* one iteration of `for (const file of getJSFiles(ROOT_DIR))` whose
\* readFileSync succeeds: parseFile, then the fold
ProcessFile(f) ==
    /\ pc = "loop"
    /\ n < MaxFiles
    /\ Discovered(f.path)
    /\ LET info   == Parsed[f]
           report == Fold([results           |-> results,
                           hasReactFiles     |-> hasReactFiles,
                           allCustomElements |-> allCustomElements], info)
       IN  /\ fileInfo' = info
           /\ results' = report.results
           /\ hasReactFiles' = report.hasReactFiles
           /\ allCustomElements' = report.allCustomElements
    /\ n' = n + 1
    /\ file' = f
    /\ readOk' = TRUE
    /\ UNCHANGED <<pc, output>>

\* ReadFails with the exception caught in the loop: the file is skipped
ReadFailsSkippingFile(f) ==
    /\ pc = "loop"
    /\ n < MaxFiles
    /\ Discovered(f.path)
    /\ n' = n + 1
    /\ file' = f
    /\ readOk' = FALSE
    /\ pc' = "loop"
    /\ UNCHANGED <<fileInfo, results, hasReactFiles, allCustomElements, output>>

\* an iteration whose readFileSync throws: nothing catches the exception, the
\* process ends before the output statement is reached
ReadFails(f) ==
    /\ pc = "loop"
    /\ n < MaxFiles
    /\ Discovered(f.path)
    /\ n' = n + 1
    /\ file' = f
    /\ readOk' = FALSE
    /\ pc' = "aborted"
    /\ UNCHANGED <<fileInfo, results, hasReactFiles, allCustomElements, output>>

\* Emit that writes the report and leaves the loop running
EmitAndContinue ==
    /\ pc = "loop"
    /\ pc' = "loop"
    /\ output' = [hasReact          |-> hasReactFiles,
                  customJsxElements |-> allCustomElements,
                  files             |-> results]
    /\ UNCHANGED <<n, file, readOk, fileInfo, results, hasReactFiles,
                   allCustomElements>>

\* the generator is exhausted: the output object is built and written
Emit ==
    /\ pc = "loop"
    /\ pc' = "emitted"
    /\ output' = [hasReact          |-> hasReactFiles,
                  customJsxElements |-> allCustomElements,
                  files             |-> results]
    /\ UNCHANGED <<n, file, readOk, fileInfo, results, hasReactFiles,
                   allCustomElements>>

Next ==
    \/ \E f \in Files(n + 1) : ProcessFile(f)
    \/ \E f \in Files(n + 1) : ReadFails(f)
    \/ Emit

Spec == Init /\ [][Next]_vars

(***************************************************************************)
(* Properties                                                              *)
(***************************************************************************)

\* the last iteration read its file: file and fileInfo are that file and the
\* record parseFile returned for it
Extracted == n > 0 /\ readOk

\* ... and the file went to the grammar-based extractor as .js or .ts
LastIsEcma == Extracted /\ toLowerCase(extname(file.path)) \in {<<".","j","s">>, <<".","t","s">>}

\* ... and the file went to parseDartFile
LastIsDart == Extracted /\ toLowerCase(extname(file.path)) = <<".","d","a","r","t">>

\* the root node of the tree parseFile walked for the last file
LastTree ==
    IF toLowerCase(extname(file.path)) = <<".","t","s">> THEN file.parse.ts ELSE file.parse.js

\* the record holds the collection key with at least one element
NonEmpty(info, key) == Has(info, key) /\ Len(info[key]) > 0

\* the number of nodes of a type in a tree
RECURSIVE CountType(_, _)
RECURSIVE CountTypeAll(_, _)
CountTypeAll(children, type) ==
    IF children = << >> THEN 0
    ELSE CountType(Head(children), type) + CountTypeAll(Tail(children), type)

CountType(node, type) ==
    (IF node.type = type THEN 1 ELSE 0) + CountTypeAll(node.children, type)

\* the names an import statement binds by name: the identifiers of the
\* import_specifier nodes of its named_imports clause
NamedBindings(stmt) ==
    LET clause == FindType(stmt.children, {"import_clause"})
        named  == IF clause = << >> THEN << >>
                  ELSE FindType(clause[1].children, {"named_imports"})
    IN  IF named = << >> THEN << >> ELSE SpecifierNames(named[1].children)

\* C1: after every fold, each record of results has at least one symbol, one
\* import or one custom markup name, the record of the file just folded is in
\* results exactly if it has one, and the report lists exactly results.
C1_EmptinessRule ==
    /\ \A i \in 1..Len(results) :
          \/ NonEmpty(results[i], "symbols")
          \/ NonEmpty(results[i], "imports")
          \/ NonEmpty(results[i], "jsxElements")
    /\ Extracted =>
         ((\E i \in 1..Len(results) : results[i] = fileInfo)
            <=> \/ NonEmpty(fileInfo, "symbols")
                \/ NonEmpty(fileInfo, "imports")
                \/ NonEmpty(fileInfo, "jsxElements"))
    /\ pc = "emitted" => output.files = results

\* C1 witness: two files were folded, the first is in results, the second
\* uses markup (a fragment) but has no symbol, import or markup name and is
\* left out.
C1_ExcludedAfterIncluded ==
    /\ Extracted
    /\ n = 2
    /\ Len(results) = 1
    /\ results[1] # fileInfo
    /\ Has(fileInfo, "hasJsx")
    /\ ~NonEmpty(fileInfo, "jsxElements")

\* C2: the class symbols emitted for an ECMAScript file are as many as the
\* class_declaration nodes of its tree.
C2_OneSymbolPerClassDeclaration ==
    LastIsEcma =>
      Cardinality({i \in 1..Len(fileInfo.symbols) : fileInfo.symbols[i].kind = "class"})
        = CountType(LastTree, "class_declaration")

\* C3: a program that is one `export <decl>` gives the symbol list of the
\* program that is `<decl>` alone.
C3_ExportLikeDeclaration ==
    (LastIsEcma /\ Len(LastTree.children) = 1
       /\ LastTree.children[1].type = "export_statement")
      => fileInfo.symbols
           = processNode(Program(<<LastTree.children[1].children[2]>>), NewAcc).symbols

\* C4: every import statement of an ECMAScript file has its entry in imports:
\* the source with the names in order if it binds names, the source alone
\* (no bindings) if it is a default, namespace or side-effect import.
C4_NamedBindingsRecorded ==
    LastIsEcma =>
      \A i \in 1..Len(LastTree.children) :
        LET stmt   == LastTree.children[i]
            source == Slice1(TextOf(FindType(stmt.children, {"string"})))
            names  == NamedBindings(stmt)
        IN  stmt.type = "import_statement" =>
              \E k \in 1..Len(fileInfo.imports) :
                fileInfo.imports[k] =
                  IF names # << >>
                    THEN [source |-> source, specifiers |-> names]
                    ELSE [source |-> source]

\* C5: no import entry of a record any extractor returns has an empty
\* bindings list.
C5_NoEmptyBindings ==
    (Extracted /\ Has(fileInfo, "imports")) =>
      \A i \in 1..Len(fileInfo.imports) :
        Has(fileInfo.imports[i], "specifiers") => fileInfo.imports[i].specifiers # << >>

\* C6: in the record parseFile returns, no optional collection (symbols,
\* imports, jsxElements, the manifest's components, a symbol's annotations
\* and dependencies) is present and empty.
C6_AbsentWhenEmpty ==
    Extracted =>
      /\ \A key \in {"symbols", "imports", "jsxElements"} :
            Has(fileInfo, key) => fileInfo[key] # << >>
      /\ Has(fileInfo, "androidManifest") =>
            (Has(fileInfo.androidManifest, "components")
               => fileInfo.androidManifest.components # << >>)
      /\ Has(fileInfo, "symbols") =>
            \A i \in 1..Len(fileInfo.symbols) :
              \A key \in {"annotations", "dependencies"} :
                Has(fileInfo.symbols[i], key) => fileInfo.symbols[i][key] # << >>

\* C7: a file whose read fails does not abort the run: the loop goes on or
\* the report has been written.
C7_ReadFailureDoesNotAbort == ~readOk => pc \in {"loop", "emitted"}

\* C8: no class symbol of a Dart file is both stateless and stateful; one
\* whose superclass is StatelessWidget is stateless and not stateful, one
\* whose superclass is StatefulWidget is stateful and not stateless.
C8_StatelessXorStateful ==
    LastIsDart =>
      \A i \in 1..Len(fileInfo.symbols) :
        LET s == fileInfo.symbols[i]
        IN  /\ ~(s.isStateless /\ s.isStateful)
            /\ (Has(s, "extends") /\ s.extends = <<"S","t","a","t","e","l","e","s","s","W","i","d","g","e","t">>)
                 => (s.isStateless /\ ~s.isStateful)
            /\ (Has(s, "extends") /\ s.extends = <<"S","t","a","t","e","f","u","l","W","i","d","g","e","t">>)
                 => (s.isStateful /\ ~s.isStateless)

\* C9: a class symbol of a Dart file has isWidget exactly if its matched
\* superclass is in FLUTTER_WIDGETS or the file holds the text
\* `class <name> extends StatelessWidget` or `class <name> extends
\* StatefulWidget`; the file `class HomePage extends StatefulWidget {}` gives
\* one symbol, a widget, stateful, not stateless.
C9_WidgetClassification ==
    LastIsDart =>
      /\ \A i \in 1..Len(fileInfo.symbols) :
           LET s == fileInfo.symbols[i]
           IN  s.isWidget <=>
                 \/ Has(s, "extends") /\ s.extends \in Range(FLUTTER_WIDGETS)
                 \/ Includes(file.text, <<"c","l","a","s","s"," ">> \o s.name \o <<" ","e","x","t","e","n","d","s"," ","S","t","a","t","e","l","e","s","s","W","i","d","g","e","t">>)
                 \/ Includes(file.text, <<"c","l","a","s","s"," ">> \o s.name \o <<" ","e","x","t","e","n","d","s"," ","S","t","a","t","e","f","u","l","W","i","d","g","e","t">>)
      /\ file.text = <<"c","l","a","s","s"," ","H","o","m","e","P","a","g","e"," ","e","x","t","e","n","d","s"," ","S","t","a","t","e","f","u","l","W","i","d","g","e","t"," ","{","}">> =>
           /\ Len(fileInfo.symbols) = 1
           /\ fileInfo.symbols[1].name = <<"H","o","m","e","P","a","g","e">>
           /\ fileInfo.symbols[1].isWidget
           /\ fileInfo.symbols[1].isStateful
           /\ ~fileInfo.symbols[1].isStateless

\* C9 witness: the file `class A extends StatelessWidgetX {}` was extracted:
\* its class is a widget by the text test alone, its superclass is none of
\* the registry.
C9_WidgetByTextOnly ==
    /\ LastIsDart
    /\ Len(fileInfo.symbols) = 1
    /\ fileInfo.symbols[1].isWidget
    /\ Has(fileInfo.symbols[1], "extends")
    /\ fileInfo.symbols[1].extends \notin Range(FLUTTER_WIDGETS)

\* C10: hasReactFiles is true exactly if a record of results has hasJsx or an
\* import, bare or with bindings, whose source contains `react`; the report
\* carries that value.
C10_HasReactIffIncludedFileUsesIt ==
    /\ hasReactFiles <=>
         \E i \in 1..Len(results) :
           \/ Has(results[i], "hasJsx")
           \/ /\ Has(results[i], "imports")
              /\ \E k \in 1..Len(results[i].imports) :
                   Includes(results[i].imports[k].source, <<"r","e","a","c","t">>)
    /\ pc = "emitted" => output.hasReact = hasReactFiles

\* C10 witness: a file with markup that the emptiness rule leaves out was
\* folded after a file that is in results, and hasReactFiles is still false.
C10_ExcludedMarkupFileSetsNothing ==
    /\ Extracted
    /\ Len(results) = 1
    /\ ~hasReactFiles
    /\ Has(fileInfo, "hasJsx")
    /\ \A i \in 1..Len(results) : results[i] # fileInfo

\* the tag names of the jsx_element and jsx_self_closing_element nodes of a
\* tree: the identifier of the opening or self-closing tag
RECURSIVE MarkupTagNames(_)
MarkupTagNames(node) ==
    (IF node.type = "jsx_self_closing_element"
       THEN {c.text : c \in Range(FindType(node.children, {"identifier"}))}
     ELSE IF node.type = "jsx_element" /\ node.children # << >>
       THEN {c.text : c \in Range(FindType(node.children[1].children, {"identifier"}))}
     ELSE {})
      \cup UNION {MarkupTagNames(node.children[i]) : i \in 1..Len(node.children)}

\* C11: after every fold, allCustomElements holds exactly the jsxElements of
\* the records of results, each name once; the names of the record just
\* returned by parseFile are among them; the report carries that list.
C11_RegistryIsUnion ==
    /\ Range(allCustomElements)
         = UNION {IF Has(results[i], "jsxElements")
                    THEN Range(results[i].jsxElements) ELSE {} :
                  i \in 1..Len(results)}
    /\ Cardinality(Range(allCustomElements)) = Len(allCustomElements)
    /\ (Extracted /\ Has(fileInfo, "jsxElements"))
         => Range(fileInfo.jsxElements) \subseteq Range(allCustomElements)
    /\ pc = "emitted" => output.customJsxElements = allCustomElements

\* C11 witness: two files that each have a markup name were folded, and the
\* name they share is in allCustomElements once.
C11_SharedNameOnce ==
    /\ Extracted
    /\ Len(results) = 2
    /\ NonEmpty(results[1], "jsxElements")
    /\ NonEmpty(results[2], "jsxElements")
    /\ results[1].jsxElements = results[2].jsxElements
    /\ allCustomElements = results[1].jsxElements

\* C12: the jsxElements of an ECMAScript file are exactly the tag names of
\* its opening and self-closing elements whose lower-cased form is not in
\* WEB_ELEMENTS.
C12_CustomTagNames ==
    LastIsEcma =>
      (IF Has(fileInfo, "jsxElements") THEN Range(fileInfo.jsxElements) ELSE {})
        = {name \in MarkupTagNames(LastTree) :
             toLowerCase(name) \notin Range(WEB_ELEMENTS)}

\* the names (property_identifier) of the members of the given types, in
\* body order
RECURSIVE MemberNames(_, _)
MemberNames(members, types) ==
    IF members = << >> THEN << >>
    ELSE (IF Head(members).type \in types
            THEN <<TextOf(FindType(Head(members).children, {"property_identifier"}))>>
            ELSE << >>)
           \o MemberNames(Tail(members), types)

\* the superclass a class_heritage node names, in either grammar
SuperclassOf(heritage) ==
    LET clause == FindType(heritage.children, {"extends_clause"})
    IN  TextOf(FindType(IF clause = << >> THEN heritage.children
                        ELSE clause[1].children, {"identifier"}))

\* the symbol a class declaration stands for: its name, its superclass, its
\* method names and its field names
ClassSymbolOf(decl) ==
    LET heritage == FindType(decl.children, {"class_heritage"})
        body     == FindType(decl.children, {"class_body"})
        members  == IF body = << >> THEN << >> ELSE body[1].children
    IN  NonEmptyField("methods", MemberNames(members, {"method_definition"}))
          @@ NonEmptyField("properties",
               MemberNames(members, {"field_definition", "public_field_definition"}))
          @@ NonEmptyField("extends",
               IF heritage = << >> THEN << >> ELSE SuperclassOf(heritage[1]))
          @@ [name |-> TextOf(FindType(decl.children, {"identifier", "type_identifier"})),
              kind |-> "class"]

\* C13: every class declaration at the top of an ECMAScript file, in the
\* plain or the typed grammar, has its symbol in the record: name, kind
\* class, extends = the superclass of the heritage clause, methods and
\* properties = the method and field names in body order.
C13_ClassSymbolShape ==
    LastIsEcma =>
      \A i \in 1..Len(LastTree.children) :
        LastTree.children[i].type = "class_declaration" =>
          \E k \in 1..Len(fileInfo.symbols) :
            fileInfo.symbols[k] = ClassSymbolOf(LastTree.children[i])

\* ... and the file went to parseAndroidManifest
LastIsManifest == Extracted /\ Has(fileInfo, "androidManifest")

\* the value of the attribute whose opening quote ends at index q - 1: the
\* text up to the next quote
AttributeValueAt(content, q) ==
    SubSeq(content, q, Min({k \in q..Len(content) : content[k] = "\""}) - 1)

\* the places where content holds prefix (name=") followed by a value of at
\* least one character and its closing quote
AttributePlaces(content, prefix) ==
    {p \in 1..Len(content) :
       /\ StartsAt(content, p, prefix)
       /\ \E k \in (p + Len(prefix) + 1)..Len(content) : content[k] = "\""
       /\ content[p + Len(prefix)] # "\""}

\* the values of the attributes at the places ps, in source order
RECURSIVE AttributeValuesAt(_, _, _)
AttributeValuesAt(content, prefix, ps) ==
    IF ps = {} THEN << >>
    ELSE <<AttributeValueAt(content, Min(ps) + Len(prefix))>>
           \o AttributeValuesAt(content, prefix, ps \ {Min(ps)})

\* C14: the manifest record has the value of the first package="..."
\* attribute as package, and as components the values of all
\* android:name="..." attributes in source order, duplicates kept.
C14_ManifestExtraction ==
    LastIsManifest =>
      LET packages == AttributeValuesAt(file.text, <<"p","a","c","k","a","g","e","=","\"">>,
                                        AttributePlaces(file.text, <<"p","a","c","k","a","g","e","=","\"">>))
          names    == AttributeValuesAt(file.text, <<"a","n","d","r","o","i","d",":","n","a","m","e","=","\"">>,
                                        AttributePlaces(file.text, <<"a","n","d","r","o","i","d",":","n","a","m","e","=","\"">>))
      IN  /\ fileInfo.androidManifest.components = names
          /\ Has(fileInfo.androidManifest, "package") <=> packages # << >>
          /\ packages # << >> => fileInfo.androidManifest.package = packages[1]

\* C14 witness: a manifest with two package attributes and three component
\* names, the first and the third equal, was extracted.
C14_DuplicateComponentKept ==
    /\ LastIsManifest
    /\ Has(fileInfo.androidManifest, "package")
    /\ Cardinality(AttributePlaces(file.text, <<"p","a","c","k","a","g","e","=","\"">>)) = 2
    /\ Len(fileInfo.androidManifest.components) = 3
    /\ fileInfo.androidManifest.components[1] = fileInfo.androidManifest.components[3]
    /\ fileInfo.androidManifest.components[1] # fileInfo.androidManifest.components[2]

\* C15: a manifest without package attribute gives a record without
\* package, a manifest without android:name attribute a record without
\* components.
C15_MissingManifestFieldsAbsent ==
    LastIsManifest =>
      /\ AttributePlaces(file.text, <<"p","a","c","k","a","g","e","=","\"">>) = {}
           => ~Has(fileInfo.androidManifest, "package")
      /\ AttributePlaces(file.text, <<"a","n","d","r","o","i","d",":","n","a","m","e","=","\"">>) = {}
           => ~Has(fileInfo.androidManifest, "components")

\* the lower-cased extension and the file name of the last file
LastExt == toLowerCase(extname(file.path))

LastName == SubSeq(file.path, LastIndexOf(file.path, "/") + 1, Len(file.path))

\* C16: the record carries the manifest extractor's result exactly if the
\* file name is AndroidManifest.xml, the widget-language extractor's fields
\* exactly if the extension is .dart, and the grammar-based extractor's
\* markup result only for an ECMAScript extension, where the symbols are
\* those of the typed tree for .ts/.tsx and of the plain tree otherwise.
C16_ExtractorByFileKind ==
    Extracted =>
      /\ Has(fileInfo, "androidManifest") <=> LastName = <<"A","n","d","r","o","i","d","M","a","n","i","f","e","s","t",".","x","m","l">>
      /\ Has(fileInfo, "isTestFile") <=> LastExt = <<".","d","a","r","t">>
      /\ Has(fileInfo, "hasJsx") => LastExt \in {<<".","j","s">>, <<".","j","s","x">>, <<".","t","s">>, <<".","t","s","x">>}
      /\ LastExt \in {<<".","j","s">>, <<".","j","s","x">>, <<".","t","s">>, <<".","t","s","x">>} =>
           fileInfo.symbols
             = processNode(IF LastExt \in {<<".","t","s">>, <<".","t","s","x">>}
                             THEN file.parse.ts ELSE file.parse.js, NewAcc).symbols

C18_MonotoneAccumulation ==
    [][/\ \/ results' = results
          \/ results' = Append(results, fileInfo')
       /\ Range(allCustomElements) \subseteq Range(allCustomElements')
       /\ hasReactFiles => hasReactFiles']_vars

\* C18 witness: a second record was appended behind a first one that set
\* hasReactFiles and gave a markup name; the second has no markup and no
\* react import, and the flag and the name are still there.
C18_SecondAppendKeepsFlag ==
    /\ Extracted
    /\ Len(results) = 2
    /\ results[2] = fileInfo
    /\ Has(results[1], "jsxElements")
    /\ ~Has(fileInfo, "hasJsx")
    /\ \A k \in 1..Len(fileInfo.imports) : ~Includes(fileInfo.imports[k].source, <<"r","e","a","c","t">>)
    /\ hasReactFiles
    /\ allCustomElements = results[1].jsxElements

\* C19: every step is taken in the loop and is either one whole iteration
\* for the next file in discovery order (read, and if the read succeeds
\* extracted and folded in that step, with no report written yet) or the
\* emission of the report over results as they stand after the last fold;
\* nothing is read after the report.
C19_OneFileAtATime ==
    [][/\ pc = "loop"
       /\ output = None
       /\ \/ /\ n' = n + 1
             /\ file'.path[1] = <<"1","2","3","4","5","6","7","8","9">>[n']
             /\ readOk' => /\ fileInfo' = Parsed[file']
                           /\ pc' = "loop"
                           /\ results' = IF HasContent(fileInfo')
                                           THEN Append(results, fileInfo')
                                           ELSE results
             /\ output' = None
          \/ /\ pc' = "emitted"
             /\ n' = n
             /\ results' = results
             /\ output'.files = results]_vars

\* C19 witness: two files were read, extracted and folded in discovery order
\* and the report was emitted after the second.
C19_ReportAfterLastFold ==
    /\ pc = "emitted"
    /\ n = 2
    /\ Len(results) = 2
    /\ results[1].file[1] = "1"
    /\ results[2].file[1] = "2"
    /\ results[2] = fileInfo
    /\ output.files = results

\* the regular expressions of the extractors' scan loops
ScanRegexes ==
    {dartClassRegex, annotationRegex, importRegex, packageImportRegex,
     androidClassRegex, packageRegex, componentRegex}

\* C20: the run ends, with the report emitted or the process failed: every
\* step reads one more of the at most MaxFiles discovered files or ends the
\* run, and while the loop runs a step is possible. A report is emitted only
\* when no read failed, over all of results; a failed run has written no
\* report. No scan loop can stand still: a match of any of the regular
\* expressions, at any place of a discovered content, ends behind the place
\* it starts at.
C20_Completion ==
    /\ [](n <= MaxFiles)
    /\ [][pc = "loop" /\ (n' = n + 1 \/ pc' = "emitted")]_vars
    /\ [](pc = "loop" => ENABLED Next)
    /\ [](pc \in {"loop", "emitted", "aborted"})
    /\ [](pc = "emitted" => readOk /\ output.files = results)
    /\ [](pc # "emitted" => output = None)
    /\ [](~readOk => pc = "aborted")
    /\ []((Extracted /\ n = 1) =>
            \A regex \in ScanRegexes :
              \A p \in 1..Len(file.text) :
                LET m == MatchAt(file.text, p, regex, NoCaps)
                IN  m.ok => m.end > p)

\* C20 witness: the read of the second file failed after the first was
\* folded: the process has ended and no report was written.
C20_FailedWithoutReport ==
    /\ pc = "aborted"
    /\ n = 2
    /\ Len(results) = 1
    /\ output = None

\* the names a tree declares, in document order: the name of every
\* function declaration, class declaration and variable declarator
RECURSIVE DeclaredNames(_)
RECURSIVE DeclaredNamesAll(_)
DeclaredNamesAll(children) ==
    IF children = << >> THEN << >>
    ELSE DeclaredNames(Head(children)) \o DeclaredNamesAll(Tail(children))

DeclaredNames(node) ==
    (IF node.type \in {"function_declaration", "class_declaration", "variable_declarator"}
       THEN <<TextOf(FindType(node.children, {"identifier", "type_identifier"}))>>
       ELSE << >>)
      \o DeclaredNamesAll(node.children)

\* the sources a tree imports, in document order: the text between the
\* quotes of the string of every import statement
RECURSIVE ImportedSources(_)
RECURSIVE ImportedSourcesAll(_)
ImportedSourcesAll(children) ==
    IF children = << >> THEN << >>
    ELSE ImportedSources(Head(children)) \o ImportedSourcesAll(Tail(children))

ImportedSources(node) ==
    (IF node.type = "import_statement"
       THEN <<Slice1(TextOf(FindType(node.children, {"string"})))>>
       ELSE << >>)
      \o ImportedSourcesAll(node.children)

\* the first place of x in the sequence s
FirstPlace(s, x) == Min({i \in 1..Len(s) : s[i] = x})

\* C21: the symbols of an ECMAScript file stand in the order in which their
\* declarations start in the source, a class nested in another one behind
\* it, and the imports in the order of their statements.
C21_DocumentOrder ==
    LastIsEcma =>
      /\ \A i, j \in 1..Len(fileInfo.symbols) :
           i < j => FirstPlace(DeclaredNames(LastTree), fileInfo.symbols[i].name)
                      <= FirstPlace(DeclaredNames(LastTree), fileInfo.symbols[j].name)
      /\ \A i, j \in 1..Len(fileInfo.imports) :
           i < j => FirstPlace(ImportedSources(LastTree), fileInfo.imports[i].source)
                      <= FirstPlace(ImportedSources(LastTree), fileInfo.imports[j].source)

\* the arguments of a call, without the parentheses and commas around them
ArgumentsOf(call) ==
    LET list == FindType(call.children, {"arguments"})
    IN  IF list = << >> THEN << >>
        ELSE SelectSeq(list[1].children, LAMBDA c : c.type \notin {"(", ",", ")"})

\* the sources a tree asks for, in document order: the text between the
\* quotes of the string of an import statement, and of the string that is
\* the first argument of a call of require
RECURSIVE ImportOccurrences(_)
RECURSIVE ImportOccurrencesAll(_)
ImportOccurrencesAll(children) ==
    IF children = << >> THEN << >>
    ELSE ImportOccurrences(Head(children)) \o ImportOccurrencesAll(Tail(children))

ImportOccurrences(node) ==
    (CASE node.type = "import_statement" ->
            <<Slice1(TextOf(FindType(node.children, {"string"})))>>
       [] node.type = "call_expression"
            /\ TextOf(FindType(node.children, {"identifier"})) = <<"r","e","q","u","i","r","e">>
            /\ ArgumentsOf(node) # << >>
            /\ ArgumentsOf(node)[1].type = "string" ->
            <<Slice1(ArgumentsOf(node)[1].text)>>
       [] OTHER -> << >>)
      \o ImportOccurrencesAll(node.children)

\* the require calls among the import occurrences of a tree
RequireLiterals(node) ==
    SelectSeq(ImportOccurrences(node),
              LAMBDA s : s \notin Range(ImportedSources(node)))

\* C22: the imports of an ECMAScript file are, in the order of occurrence,
\* the sources of its import statements and the string literals that are
\* the first argument of a require call, a require call with a string
\* literal giving a bare source; a require call with another argument
\* gives nothing.
C22_RequireLiteralRecorded ==
    LastIsEcma =>
      /\ [i \in 1..Len(fileInfo.imports) |-> fileInfo.imports[i].source]
           = ImportOccurrences(LastTree)
      /\ \A s \in Range(RequireLiterals(LastTree)) :
           [source |-> s] \in Range(fileInfo.imports)

\* the declarators of the block-scoped declarations of a tree whose value
\* is a function or an arrow function, in document order
RECURSIVE FunctionDeclarators(_)
RECURSIVE FunctionDeclaratorsAll(_)
FunctionDeclaratorsAll(children) ==
    IF children = << >> THEN << >>
    ELSE FunctionDeclarators(Head(children)) \o FunctionDeclaratorsAll(Tail(children))

FunctionDeclarators(node) ==
    (IF node.type = "lexical_declaration"
       THEN LET ds == SelectSeq(node.children, LAMBDA c :
                        /\ c.type = "variable_declarator"
                        /\ FindType(c.children, {"arrow_function", "function"}) # << >>)
            IN  [i \in 1..Len(ds) |-> TextOf(FindType(ds[i].children, {"identifier"}))]
       ELSE << >>)
      \o FunctionDeclaratorsAll(node.children)

\* C23: every declarator of a block-scoped declaration whose value is a
\* function or an arrow function gives a function symbol of its name, the
\* second and later declarators of a statement too, and a declarator with
\* another value gives none: in a file without function and class
\* declarations the names of the symbols are the names of these declarators.
C23_EveryFunctionDeclarator ==
    (/\ LastIsEcma
     /\ CountType(LastTree, "function_declaration") = 0
     /\ CountType(LastTree, "class_declaration") = 0) =>
      /\ \A i \in 1..Len(fileInfo.symbols) : fileInfo.symbols[i].kind = "function"
      /\ {fileInfo.symbols[i].name : i \in 1..Len(fileInfo.symbols)}
           = Range(FunctionDeclarators(LastTree))

\* the state-management idioms in their fixed order: the fragment of an
\* import path and the name it stands for
StateIdioms ==
    <<[fragment |-> <<"p","r","o","v","i","d","e","r">>, name |-> <<"P","r","o","v","i","d","e","r">>],
      [fragment |-> <<"b","l","o","c">>,     name |-> <<"B","L","o","C">>],
      [fragment |-> <<"g","e","t">>,      name |-> <<"G","e","t","X">>],
      [fragment |-> <<"m","o","b","x">>,     name |-> <<"M","o","b","X">>],
      [fragment |-> <<"r","i","v","e","r","p","o","d">>, name |-> <<"R","i","v","e","r","p","o","d">>]>>

\* the names of the idioms a fragment of which occurs in one of the import
\* paths, in the fixed order
MatchedIdioms(imports) ==
    LET hit == SelectSeq(StateIdioms, LAMBDA idiom :
                 \E i \in 1..Len(imports) : Includes(imports[i].source, idiom.fragment))
    IN  [i \in 1..Len(hit) |-> hit[i].name]

\* C24: the state pattern of a Dart file is the names of the idioms matched
\* by its import paths, each once, in the fixed order Provider, BLoC, GetX,
\* MobX, Riverpod whatever the order of the imports, joined by commas; it
\* is absent when no import path matches.
C24_StatePatternInRegistryOrder ==
    LastIsDart =>
      IF MatchedIdioms(fileInfo.imports) = << >>
        THEN ~Has(fileInfo, "statePattern")
        ELSE /\ Has(fileInfo, "statePattern")
             /\ fileInfo.statePattern = Join(MatchedIdioms(fileInfo.imports), <<","," ">>)

\* C25: a Dart file is a test file exactly when its path ends with
\* `_test.dart` or with `.test.dart`; a path that holds one of the two
\* before its end, in the name of a directory, is not that of a test file.
C25_TestFileBySuffix ==
    LastIsDart =>
      (fileInfo.isTestFile <=> \/ EndsWith(file.path, <<"_","t","e","s","t",".","d","a","r","t">>)
                               \/ EndsWith(file.path, <<".","t","e","s","t",".","d","a","r","t">>))

\* the file-scoped attributes a class symbol of a Dart file carries
FileScoped(symbol) ==
    [key \in {"stateManagement", "annotations", "dependencies"} \cap DOMAIN symbol
       |-> symbol[key]]

\* C26: the stateManagement of every class symbol of a Dart file is the
\* first name of the state-management registry, in the order of the
\* registry, that occurs somewhere in the text of the file, and is absent
\* when none occurs; all class symbols of one file carry the same
\* stateManagement, annotations and dependencies.
C26_FileScopedStateManagement ==
    LastIsDart =>
      /\ \A k \in 1..Len(fileInfo.symbols) :
           LET symbol == fileInfo.symbols[k]
           IN  IF \E i \in 1..Len(DART_STATE_MANAGEMENT) :
                     Includes(file.text, DART_STATE_MANAGEMENT[i])
                 THEN /\ Has(symbol, "stateManagement")
                      /\ \E i \in 1..Len(DART_STATE_MANAGEMENT) :
                           /\ symbol.stateManagement = DART_STATE_MANAGEMENT[i]
                           /\ Includes(file.text, DART_STATE_MANAGEMENT[i])
                           /\ \A j \in 1..(i - 1) :
                                ~Includes(file.text, DART_STATE_MANAGEMENT[j])
                 ELSE ~Has(symbol, "stateManagement")
      /\ \A k, l \in 1..Len(fileInfo.symbols) :
           FileScoped(fileInfo.symbols[k]) = FileScoped(fileInfo.symbols[l])

\* a Dart file with two classes has been read: the first extends Cubit, the
\* second Store, which stands before Cubit in the registry; both carry
\* Store, the annotation and the package of the file
C26_TwoClassesShareStore ==
    /\ LastIsDart
    /\ Len(fileInfo.symbols) = 2
    /\ fileInfo.symbols[1].extends = <<"C","u","b","i","t">>
    /\ fileInfo.symbols[2].extends = <<"S","t","o","r","e">>
    /\ \A k \in 1..2 :
         FileScoped(fileInfo.symbols[k])
           = [stateManagement |-> <<"S","t","o","r","e">>,
              annotations     |-> <<<<"@","i","m","m","u","t","a","b","l","e">>>>,
              dependencies    |-> <<<<"p">>>>]

\* C27: the record of a manifest has no symbols, no imports and no markup
\* names, whatever the manifest holds, so the loop never appends it: no
\* record of the collected files, and none of the report, carries a
\* manifest.
C27_ManifestNeverReported ==
    /\ LastIsManifest =>
         /\ fileInfo.symbols = << >>
         /\ fileInfo.imports = << >>
         /\ ~Has(fileInfo, "jsxElements")
         /\ fileInfo \notin Range(results)
    /\ \A i \in 1..Len(results) : ~Has(results[i], "androidManifest")
    /\ pc = "emitted" =>
         \A i \in 1..Len(output.files) : ~Has(output.files[i], "androidManifest")

\* the report of a run over a manifest with a package and components and
\* over another file has been written; it holds the other file alone
C27_ManifestLeftOutOfReport ==
    /\ pc = "emitted"
    /\ n = 2
    /\ LastIsManifest
    /\ Has(fileInfo.androidManifest, "package")
    /\ Len(fileInfo.androidManifest.components) > 1
    /\ Len(output.files) = 1

\* the three accumulators before the first file
EmptyReport == [results |-> << >>, hasReactFiles |-> FALSE, allCustomElements |-> << >>]

\* the loop over the records infos, from the accumulators report
RECURSIVE FoldAll(_, _)
FoldAll(report, infos) ==
    IF infos = << >> THEN report
    ELSE FoldAll(Fold(report, Head(infos)), Tail(infos))

\* the orders in which k files can be processed
Orders(k) ==
    {p \in [1..k -> 1..k] : \A i, j \in 1..k : p[i] = p[j] => i = j}

\* the records collected so far, processed in the order p
Reordered(p) == FoldAll(EmptyReport, [i \in 1..Len(results) |-> results[p[i]]])

\* C28: the order in which the files are processed does not change the
\* project-level signals: processed in any other order, the files collected
\* so far give the same hasReactFiles, the same set of custom element names
\* and the same set of records, and so does the report once written.
C28_OrderIndependent ==
    \A p \in Orders(Len(results)) :
      /\ Reordered(p).hasReactFiles = hasReactFiles
      /\ Range(Reordered(p).allCustomElements) = Range(allCustomElements)
      /\ Range(Reordered(p).results) = Range(results)
      /\ pc = "emitted" =>
           /\ Reordered(p).hasReactFiles = output.hasReact
           /\ Range(Reordered(p).allCustomElements) = Range(output.customJsxElements)
           /\ Range(Reordered(p).results) = Range(output.files)

\* the report of a run over two files has been written: the first uses
\* react and has a custom element name, the second does not use react;
\* processed in the other order they give the records in the other order
C28_TwoFilesOrderMatters ==
    /\ pc = "emitted"
    /\ Len(results) = 2
    /\ UsesReact(results[1])
    /\ NonEmpty(results[1], "jsxElements")
    /\ ~UsesReact(results[2])
    /\ output.hasReact
    /\ output.customJsxElements # << >>
    /\ Reordered(<<2, 1>>).results # results

====
